---- MODULE Spec2Model ----
(***************************************************************************)
(* PageIndex document structuring and hybrid retrieval (rag-demo).         *)
(*                                                                         *)
(* Texts are sequences of one-character strings.  The characters that the  *)
(* parser and the chunker tell apart are: the newline, the blank, the      *)
(* hash sign of a Markdown heading, a sentence terminator of the class     *)
(* [。！？] (written FullStop) and ordinary letters.                        *)
(***************************************************************************)
EXTENDS Integers, Sequences, FiniteSets, TLC

NL == "\n"
SP == " "
HASH == "#"
FullStop == "."

\* ---------------------------------------------------------------- bounds
\* lines of a composed document, characters of a typed text, and the
\* largest chunk size / overlap / minimum size a caller asks for
MaxLines == 4
MaxLen == 5
MaxChunk == 3
MaxOverlap == 3
MaxMin == 2
\* lines of an indexed document, and build_index calls on it
MaxDocLines == 4
MaxRuns == 2
\* store / provider calls that raise during the runs on a document
MaxFaults == 1
\* chunks in the store of a retrieval, and the largest top_k asked for
MaxChunks == 3
MaxTopK == 2
\* length of the long body line of a composed document
LongLen == 60
\* streaming client: the events of a response, and the longest value a
\* read returns unless it returns all that is left
MaxEvents == 3
MaxRead == 2
\* questions asked on the chat page
MaxQuestions == 2
\* edits of the preview text, and preview requests issued
MaxEdits == 3
MaxPreviews == 3

\* ------------------------------------------------------------ constants
\* chunk_size and overlap of build_index, and the defaults of the page
DefaultChunkSize == 400
DefaultOverlap == 50
\* smallest chunk size and overlap the documents page lets the user enter
MinPageChunkSize == 100
MinPageOverlap == 0
\* scores are counted in thousandths: 1000 is the score 1.0
One == 1000
\* the boost weight 0.3 as a fraction
BoostNum == 3
BoostDen == 10
\* LIMIT of the routing query, default min_score (0.5) of hybrid_search
RoutingLimit == 10
DefaultMinScore == 500

VARIABLES
    content,        \* the text handed to the parser / chunker
    chunkSize,      \* chunk size of the documents page (preview request)
    overlap,        \* overlap of the documents page (preview request)
    min_chunk_size, \* the minimum chunk size the caller asks for
    root,           \* [done, items]: the node arena parse_markdown returns
    preview,        \* [done, items]: result of the split preview
    committed,      \* [done, items]: chunks of the committing upload path
    split,          \* [done, items]: result of _smart_split on content
    documents,      \* ids of the rows of table documents
    doc_trees,      \* rows of table doc_trees
    doc_nodes,      \* rows of table doc_nodes
    document_chunks,\* rows of table document_chunks
    chunk_embeddings,\* rows of table chunk_embeddings
    run,            \* the build_index call in progress
    runs,           \* number of build_index calls started
    faults,         \* number of store / provider calls that raised
    nextId,         \* source of generated ids (uuid4, gen_random_uuid)
    search,         \* the last hybrid_search call: arguments, lookup, result
    status,         \* documents.status of every row of table documents
    sse,            \* the postSseJson call: stream, buffer, handler calls
    chat,           \* the chat page: selection, requests sent, turns
    pv              \* the documents page: text, preview requests, list shown

page == <<content, chunkSize, overlap, min_chunk_size, root, preview, committed, split>>
store == <<documents, doc_trees, doc_nodes, document_chunks, chunk_embeddings>>
build == <<run, runs, faults, nextId, search, status>>
client == <<sse, chat, pv>>
vars == <<page, store, build, client>>

\* ------------------------------------------------------- string helpers
IsSpace(c) == c \in {NL, SP}

Min(a, b) == IF a < b THEN a ELSE b

\* Python slice s[a:b] with 0-based, end-exclusive, clamped bounds.
Slice(s, a, b) ==
    LET lo == IF a < 0 THEN 0 ELSE a
        hi == Min(b, Len(s))
    IN  IF lo >= hi THEN <<>> ELSE SubSeq(s, lo + 1, hi)

RECURSIVE LStrip(_)
LStrip(s) == IF s # <<>> /\ IsSpace(Head(s)) THEN LStrip(Tail(s)) ELSE s

RECURSIVE RStrip(_)
RStrip(s) ==
    IF s # <<>> /\ IsSpace(s[Len(s)]) THEN RStrip(SubSeq(s, 1, Len(s) - 1)) ELSE s

\* str.strip()
Strip(s) == RStrip(LStrip(s))

RECURSIVE Flatten(_)
Flatten(ss) == IF ss = <<>> THEN <<>> ELSE Head(ss) \o Flatten(Tail(ss))

\* str.split("\n"): the pieces between newlines, a trailing newline giving
\* a last empty piece.
\* Position of the first character of s, from position i on, that is in
\* the set cs; 0 when there is none.
FirstIn(s, i, cs) ==
    LET hits == {j \in i..Len(s) : s[j] \in cs}
    IN  IF hits = {} THEN 0 ELSE CHOOSE x \in hits : \A y \in hits : x <= y

RECURSIVE SplitLines(_)
SplitLines(s) ==
    LET p == FirstIn(s, 1, {NL})
    IN  IF p = 0 THEN <<s>>
        ELSE <<SubSeq(s, 1, p - 1)>> \o SplitLines(SubSeq(s, p + 1, Len(s)))

\* ------------------------------------------------------ DocumentParser
\* HEADING_PATTERNS: ^#{k}\s+(.+)$ for k = 1..4.  The level of a line is
\* the number of leading hashes when that number is 1..4, the hashes are
\* followed by white space and at least one more character follows; 0 when
\* no pattern matches.
RECURSIVE HashesFrom(_, _)
HashesFrom(line, i) ==
    IF i > Len(line) \/ line[i] # HASH THEN 0 ELSE 1 + HashesFrom(line, i + 1)

HashCount(line) == HashesFrom(line, 1)

HeadingLevel(line) ==
    LET k == HashCount(line)
    IN  IF k >= 1 /\ k <= 4 /\ Len(line) >= k + 2 /\ IsSpace(line[k + 1])
        THEN k ELSE 0

\* match.group(1).strip()
HeadingTitle(line) == Strip(SubSeq(line, HashCount(line) + 1, Len(line)))

\* char_pos = sum(len(l) + 1 for l in lines[:i])   (i is 1-based here)
RECURSIVE CharPos(_, _)
CharPos(lines, i) ==
    IF i <= 1 THEN 0 ELSE CharPos(lines, i - 1) + Len(lines[i - 1]) + 1

RootTitle == <<"r">>

\* DocNode; nodes live in an arena (a sequence), a node's arena position
\* stands for the object reference, children are arena positions.
DocNode(level, index, title, cs, ce) ==
    [level |-> level, index |-> index, title |-> title, content |-> <<>>,
     char_start |-> cs, char_end |-> ce, children |-> <<>>]

\* One iteration of the line loop of parse_markdown.  st = [nodes, stack].
ParseLine(text, lines, i, st) ==
    LET line     == lines[i]
        level    == HeadingLevel(line)
        char_pos == CharPos(lines, i)
        nodes    == st.nodes
        stack    == st.stack
        top      == stack[Len(stack)]
        \* close the node on top of the stack
        closed   == IF Len(stack) > 1
                    THEN [nodes EXCEPT ![top].char_end = char_pos,
                                       ![top].content =
                                           Slice(text, nodes[top].char_start, char_pos)]
                    ELSE nodes
        idx      == IF level < Len(stack)
                    THEN Len(closed[stack[level + 1]].children)
                    ELSE 0
        new_node == DocNode(level, idx, HeadingTitle(line),
                            char_pos + Len(line) + 1, Len(text))
        newId    == Len(nodes) + 1
        \* while len(stack) > level: stack.pop()
        popped   == IF Len(stack) > level THEN SubSeq(stack, 1, level) ELSE stack
        parent   == popped[Len(popped)]
        linked   == [closed EXCEPT ![parent].children = Append(@, newId)]
    IN  IF level = 0
        THEN st
        ELSE [nodes |-> Append(linked, new_node), stack |-> Append(popped, newId)]

RECURSIVE ParseLoop(_, _, _, _)
ParseLoop(text, lines, i, st) ==
    IF i > Len(lines) THEN st
    ELSE ParseLoop(text, lines, i + 1, ParseLine(text, lines, i, st))

\* parse_markdown: the arena of nodes, node 1 being the root.
parse_markdown(text) ==
    LET root0 == DocNode(0, 0, RootTitle, 0, Len(text))
        st   == ParseLoop(text, SplitLines(text), 1,
                          [nodes |-> <<root0>>, stack |-> <<1>>])
        top  == st.stack[Len(st.stack)]
    IN  IF Len(st.stack) > 1
        THEN [st.nodes EXCEPT ![top].char_end = Len(text),
                              ![top].content =
                                  Slice(text, st.nodes[top].char_start, Len(text))]
        ELSE st.nodes

\* ------------------------------------------------- the shared primitive
\* re.split(r'\n\s*\n', text): a separator starts at a newline and runs,
\* greedily, to the last newline of the white space that follows it.
SepMatch(s, p, k) ==
    /\ p < k /\ s[p] = NL /\ s[k] = NL
    /\ \A j \in (p + 1)..(k - 1) : IsSpace(s[j])

RECURSIVE SplitParagraphs(_)
SplitParagraphs(s) ==
    LET starts == {p \in 1..Len(s) :
                      s[p] = NL /\ \E k \in (p + 1)..Len(s) : SepMatch(s, p, k)}
    IN  IF starts = {} THEN <<s>>
        ELSE LET p == CHOOSE x \in starts : \A y \in starts : x <= y
                 ends == {k \in (p + 1)..Len(s) : SepMatch(s, p, k)}
                 k == CHOOSE x \in ends : \A y \in ends : y <= x
             IN  <<SubSeq(s, 1, p - 1)>> \o SplitParagraphs(SubSeq(s, k + 1, Len(s)))

\* re.split(r'([。！？\n])', para) zipped back together: every sentence keeps
\* its terminator, the last piece has none (and may be empty).
RECURSIVE SplitSentences(_)
SplitSentences(s) ==
    LET p == FirstIn(s, 1, {FullStop, NL})
    IN  IF p = 0 THEN <<s>>
        ELSE <<SubSeq(s, 1, p)>> \o SplitSentences(SubSeq(s, p + 1, Len(s)))

\* current_chunk[-ov:] if ov > 0 else ""
OverlapText(current_chunk, ov) ==
    IF ov > 0
    THEN Slice(current_chunk, Len(current_chunk) - ov, Len(current_chunk))
    ELSE <<>>

\* A sentence is cut to chunk_size before it is added.
AddSentenceTruncating(b, sentence, chunk_size, ov) ==
    LET cut == Slice(sentence, 0, chunk_size)
    IN  IF b.size + Len(cut) > chunk_size /\ b.cur # <<>>
        THEN LET next == OverlapText(b.cur, ov) \o cut
             IN  [chunks |-> Append(b.chunks, Strip(b.cur)),
                  cur |-> next, size |-> Len(next)]
        ELSE [chunks |-> b.chunks, cur |-> b.cur \o cut,
              size |-> b.size + Len(cut)]

\* Body of "for sentence in sentences".  b = [chunks, cur, size].
AddSentence(b, sentence, chunk_size, ov) ==
    IF b.size + Len(sentence) > chunk_size /\ b.cur # <<>>
    THEN LET next == OverlapText(b.cur, ov) \o sentence
         IN  [chunks |-> Append(b.chunks, Strip(b.cur)),
              cur |-> next, size |-> Len(next)]
    ELSE [chunks |-> b.chunks, cur |-> b.cur \o sentence,
          size |-> b.size + Len(sentence)]

RECURSIVE AddSentences(_, _, _, _)
AddSentences(b, sentences, chunk_size, ov) ==
    IF sentences = <<>> THEN b
    ELSE AddSentences(AddSentence(b, Head(sentences), chunk_size, ov),
                      Tail(sentences), chunk_size, ov)

\* Body of "for para in paragraphs".
AddParagraph(b, raw, chunk_size, ov) ==
    LET para == Strip(raw)
    IN  IF para = <<>> THEN b
        ELSE IF Len(para) > chunk_size
        THEN AddSentences(b, SplitSentences(para), chunk_size, ov)
        ELSE IF b.size + Len(para) + 2 > chunk_size /\ b.cur # <<>>
        THEN LET next == OverlapText(b.cur, ov) \o para
             IN  [chunks |-> Append(b.chunks, Strip(b.cur)),
                  cur |-> next, size |-> Len(next)]
        ELSE LET next == IF b.cur # <<>> THEN b.cur \o <<NL, NL>> \o para ELSE para
             IN  [chunks |-> b.chunks, cur |-> next, size |-> Len(next)]

RECURSIVE AddParagraphs(_, _, _, _)
AddParagraphs(b, paragraphs, chunk_size, ov) ==
    IF paragraphs = <<>> THEN b
    ELSE AddParagraphs(AddParagraph(b, Head(paragraphs), chunk_size, ov),
                       Tail(paragraphs), chunk_size, ov)

\* _smart_split: the ordered list of chunk texts.
smart_split(text, chunk_size, ov) ==
    LET b == AddParagraphs([chunks |-> <<>>, cur |-> <<>>, size |-> 0],
                           SplitParagraphs(text), chunk_size, ov)
    IN  IF Strip(b.cur) # <<>> THEN Append(b.chunks, Strip(b.cur)) ELSE b.chunks

\* " > ".join(current_path)
RECURSIVE JoinPath(_)
JoinPath(path) ==
    IF path = <<>> THEN <<>>
    ELSE IF Len(path) = 1 THEN path[1]
    ELSE path[1] \o <<SP, ">", SP>> \o JoinPath(Tail(path))

\* The path is forgotten: a chunk carries the title of its node only.
NodeChunksOwnTitle(nodes, n, current_path, chunk_size, ov) ==
    LET node == nodes[n]
        node_chunks == IF Strip(node.content) # <<>>
                       THEN smart_split(node.content, chunk_size, ov)
                       ELSE <<>>
    IN  [i \in 1..Len(node_chunks) |->
            [content |-> node_chunks[i], node_id |-> n,
             node_path |-> node.title, level |-> node.level,
             char_start |-> node.char_start, char_end |-> node.char_end]]

\* The chunks of one node: body of "if node.content and node.content.strip()"
NodeChunks(nodes, n, current_path, chunk_size, ov) ==
    LET node == nodes[n]
        node_chunks == IF Strip(node.content) # <<>>
                       THEN smart_split(node.content, chunk_size, ov)
                       ELSE <<>>
    IN  [i \in 1..Len(node_chunks) |->
            [content |-> node_chunks[i], node_id |-> n,
             node_path |-> JoinPath(current_path), level |-> node.level,
             char_start |-> node.char_start, char_end |-> node.char_end]]

\* traverse(node, parent_path) of get_all_chunks, depth first, a node's own
\* chunks before those of its children.
RECURSIVE Traverse(_, _, _, _, _)
RECURSIVE TraverseAll(_, _, _, _, _)
Traverse(nodes, n, parent_path, chunk_size, ov) ==
    LET current_path == Append(parent_path, nodes[n].title)
    IN  NodeChunks(nodes, n, current_path, chunk_size, ov)
        \o TraverseAll(nodes, nodes[n].children, current_path, chunk_size, ov)
TraverseAll(nodes, kids, path, chunk_size, ov) ==
    IF kids = <<>> THEN <<>>
    ELSE Traverse(nodes, Head(kids), path, chunk_size, ov)
         \o TraverseAll(nodes, Tail(kids), path, chunk_size, ov)

get_all_chunks(nodes, chunk_size, ov) ==
    Traverse(nodes, 1, <<>>, chunk_size, ov)

\* ============================================================ documents
\* A body line that is one long sentence.
LongLine == [i \in 1..LongLen |-> IF i = LongLen THEN FullStop ELSE "y"]

\* The lines a document is composed of: headings of three levels, a short
\* body line, a long body line and the empty line.
LineSet ==
    { <<HASH, SP, "a">>, <<HASH, HASH, SP, "b">>, <<HASH, HASH, HASH, SP, "c">>,
      <<"x">>, LongLine, <<>> }

Alphabet == {"a", "b", NL, FullStop}

\* The ids of the uploaded documents.
DocIds == {"d1"}

\* SQL NULL in an id column.
NULL == 0

EmbeddingModel == "text-embedding-3-large"

\* The frame of a build_index call: where it stands, its arguments and its
\* local variables; orphaned records that the document was deleted while
\* the call was in progress.
RunAt(pc, d, reg) ==
    [pc |-> pc, document_id |-> d, registry |-> reg, nodes |-> <<>>,
     uuid_base |-> 0, tree_id |-> NULL, todo |-> <<>>, node_count |-> 0,
     chunks |-> <<>>, i |-> 0, chunk_id |-> NULL, orphaned |-> FALSE]

\* documents.status of no document
NoStatus == <<>>

\* A page of the client that is not open: it holds no state and sends
\* no request.
NotOpen == <<>>

\* postSseJson has not been called.
NoStream ==
    [events |-> <<>>, whole |-> TRUE, stream |-> <<>>, rest |-> <<>>,
     pending |-> <<>>, buffer |-> <<>>, calls |-> <<>>, outcome |-> "idle",
     torn |-> FALSE]

\* The chat page before its first question.
NoChat == [selectedDocIds |-> {}, asking |-> FALSE, requests |-> <<>>, chatTurns |-> <<>>]

\* The documents page before its first preview.
NoPreview == [content |-> 0, timer |-> 0, requests |-> <<>>, chunks |-> 0]

\* No hybrid_search call has been made.
NoSearch ==
    [done |-> FALSE, query_embedding |-> 1, top_k |-> 1, min_score |-> 0,
     document_ids |-> {}, results |-> <<>>]

\* No build_index call has been made.
IdleRun == RunAt("idle", "d1", FALSE)

NoResult == [done |-> FALSE, items |-> <<>>]
Result(items) == [done |-> TRUE, items |-> items]

NothingComputed ==
    ~root.done /\ ~preview.done /\ ~committed.done /\ ~split.done

InitDoc ==
    /\ content \in LineSet
    /\ chunkSize = DefaultChunkSize
    /\ overlap = DefaultOverlap
    /\ min_chunk_size = 1
    /\ root = NoResult
    /\ preview = NoResult
    /\ committed = NoResult
    /\ split = NoResult
    /\ documents = DocIds
    /\ doc_trees = {}
    /\ doc_nodes = {}
    /\ document_chunks = {}
    /\ chunk_embeddings = {}
    /\ run = IdleRun
    /\ runs = 0
    /\ faults = 0
    /\ nextId = 1
    /\ search = NoSearch
    /\ status = NoStatus
    /\ sse = NotOpen
    /\ chat = NotOpen
    /\ pv = NotOpen

\* the user adds a line to the text
TypeLine(l) ==
    /\ NothingComputed
    /\ Len(SplitLines(content)) < MaxLines
    /\ content' = content \o <<NL>> \o l
    /\ UNCHANGED <<chunkSize, overlap, min_chunk_size, root, preview, committed, split, store, build, client>>

\* setChunkSize / setOverlap of the documents page
SetChunkSize(c) ==
    /\ NothingComputed
    /\ chunkSize # c
    /\ chunkSize' = c
    /\ UNCHANGED <<content, overlap, min_chunk_size, root, preview, committed, split, store, build, client>>

SetOverlap(o) ==
    /\ NothingComputed
    /\ overlap # o
    /\ overlap' = o
    /\ UNCHANGED <<content, chunkSize, min_chunk_size, root, preview, committed, split, store, build, client>>

ParseMarkdown ==
    /\ ~root.done
    /\ root' = Result(parse_markdown(content))
    /\ UNCHANGED <<content, chunkSize, overlap, min_chunk_size, preview, committed, split, store, build, client>>

\* The chunks of the pageindex strategy for a text and the two parameters.
PageIndexChunks(text, chunk_size, ov) ==
    get_all_chunks(parse_markdown(text), chunk_size, ov)

\* runPreview -> splitPreview({content, chunkSize, overlap, strategy}): the
\* preview endpoint runs the chunking with the parameters of the request.
SplitPreview ==
    /\ ~preview.done
    /\ preview' = Result(PageIndexChunks(content, chunkSize, overlap))
    /\ UNCHANGED <<content, chunkSize, overlap, min_chunk_size, root, committed, split, store, build, client>>

\* What uploadDocument sends: the file and the strategy, nothing else.
UploadRequest(text, chunk_size, ov) == [file |-> text, strategy |-> "pageindex"]

\* Steps 1 and 5 of build_index: parse, then get_all_chunks(root, 400, 50).
BuildChunks(text) ==
    get_all_chunks(parse_markdown(text), DefaultChunkSize, DefaultOverlap)

\* customRequest -> uploadDocument(file, splitStrategy), then the indexing
\* of the uploaded file.
UploadDocument ==
    /\ ~committed.done
    /\ committed' = Result(BuildChunks(UploadRequest(content, chunkSize, overlap).file))
    /\ UNCHANGED <<content, chunkSize, overlap, min_chunk_size, root, preview, split, store, build, client>>

NextDoc ==
    \/ \E l \in LineSet : TypeLine(l)
    \/ \E c \in {MinPageChunkSize, DefaultChunkSize} : SetChunkSize(c)
    \/ \E o \in {MinPageOverlap, DefaultOverlap} : SetOverlap(o)
    \/ ParseMarkdown
    \/ SplitPreview
    \/ UploadDocument

SpecDoc == InitDoc /\ [][NextDoc]_vars

\* ============================================================= chunking
InitChunk ==
    /\ content = <<>>
    /\ chunkSize \in 2..MaxChunk
    /\ overlap \in 0..MaxOverlap
    /\ min_chunk_size \in 1..MaxMin
    /\ min_chunk_size <= chunkSize
    /\ root = NoResult
    /\ preview = NoResult
    /\ committed = NoResult
    /\ split = NoResult
    /\ documents = DocIds
    /\ doc_trees = {}
    /\ doc_nodes = {}
    /\ document_chunks = {}
    /\ chunk_embeddings = {}
    /\ run = IdleRun
    /\ runs = 0
    /\ faults = 0
    /\ nextId = 1
    /\ search = NoSearch
    /\ status = NoStatus
    /\ sse = NotOpen
    /\ chat = NotOpen
    /\ pv = NotOpen

TypeChar(c) ==
    /\ NothingComputed
    /\ Len(content) < MaxLen
    /\ content' = Append(content, c)
    /\ UNCHANGED <<chunkSize, overlap, min_chunk_size, root, preview, committed, split, store, build, client>>

SmartSplit ==
    /\ ~split.done
    /\ split' = Result(smart_split(content, chunkSize, overlap))
    /\ UNCHANGED <<content, chunkSize, overlap, min_chunk_size, root, preview, committed, store, build, client>>

NextChunk ==
    \/ \E c \in Alphabet : TypeChar(c)
    \/ SmartSplit

SpecChunk == InitChunk /\ [][NextChunk]_vars

\* ============================================================= indexing
\* The rows of a document
TreesOf(d) == {t \in doc_trees : t.document_id = d}
NodesOf(d) == {n \in doc_nodes : \E t \in TreesOf(d) : n.tree_id = t.tree_id}
ChunksOf(d) == {c \in document_chunks : c.document_id = d}

IndexLineSet == { <<HASH, SP, "a">>, <<HASH, HASH, SP, "b">>, <<"x">> }

InitIndex ==
    /\ content \in IndexLineSet
    /\ chunkSize = DefaultChunkSize
    /\ overlap = DefaultOverlap
    /\ min_chunk_size = 1
    /\ root = NoResult
    /\ preview = NoResult
    /\ committed = NoResult
    /\ split = NoResult
    /\ documents = DocIds
    /\ doc_trees = {}
    /\ doc_nodes = {}
    /\ document_chunks = {}
    /\ chunk_embeddings = {}
    /\ run = IdleRun
    /\ runs = 0
    /\ faults = 0
    /\ nextId = 1
    /\ search = NoSearch
    /\ status = NoStatus
    /\ sse = NotOpen
    /\ chat = NotOpen
    /\ pv = NotOpen

\* the text of the uploaded file
AddLine(l) ==
    /\ runs = 0
    /\ Len(SplitLines(content)) < MaxDocLines
    /\ content' = content \o <<NL>> \o l
    /\ UNCHANGED <<chunkSize, overlap, min_chunk_size, root, preview, committed, split,
                   store, build, client>>

\* The embedding vectors, and the vector the provider returns for a text
\* (the same text always gets the same vector).
Vectors == {1, 2}
\* The vector of the query; the vectors in the store are near it or not.
QueryVectors == {1}
EmbedText(text) == IF Len(text) <= 1 THEN 1 ELSE 2

\* node.node_id = str(uuid4()) of the n-th node the parser created
NodeUuid(r, n) == r.uuid_base + n - 1

\* Off by one: the 1-based position counted once more.
ChunkIndexSkewed(i) == i + 2

\* chunk_index of the i-th (0-based) emitted chunk: i + 1
ChunkIndex(i) == i + 1

\* An exception leaves build_index: the call is over, what was written stays.
Raised(r) == [RunAt("failed", r.document_id, r.registry) EXCEPT !.orphaned = r.orphaned]

\* build_index is called; step 1 (parse) and tree_id = str(uuid4()).  The
\* caller hands the same registry to every call.
StartBuild(d, reg) ==
    /\ run.pc \in {"idle", "done", "failed"}
    /\ runs < MaxRuns
    /\ runs > 0 => reg = run.registry
    /\ LET nodes == parse_markdown(content)
       IN  /\ run' = [RunAt("insert_tree", d, reg) EXCEPT
                          !.nodes = nodes, !.uuid_base = nextId,
                          !.tree_id = nextId + Len(nodes)]
           /\ nextId' = nextId + Len(nodes) + 1
    /\ runs' = runs + 1
    /\ UNCHANGED <<page, store, faults, search, status, client>>

\* step 2: INSERT INTO doc_trees
InsertTree ==
    /\ run.pc = "insert_tree"
    /\ IF run.document_id \in documents
       THEN /\ doc_trees' = doc_trees \cup
                  {[tree_id |-> run.tree_id, document_id |-> run.document_id,
                    total_nodes |-> 0]}
            /\ run' = [run EXCEPT !.pc = "save_nodes",
                          !.todo = <<[node |-> 1, parent_db_id |-> NULL,
                                      level |-> 0, index |-> 0]>>]
       ELSE /\ run' = Raised(run)
            /\ UNCHANGED doc_trees
    /\ UNCHANGED <<page, documents, doc_nodes, document_chunks, chunk_embeddings,
                   runs, faults, nextId, search, status, client>>

\* step 3: one INSERT INTO doc_nodes of _save_nodes; the calls for the
\* children of the saved node come next, before those still pending.  The
\* insert raises on UNIQUE(tree_id, node_level, node_index) and on the
\* references to doc_trees and to the parent node.
SaveNode ==
    /\ run.pc = "save_nodes"
    /\ LET f     == Head(run.todo)
           node  == run.nodes[f.node]
           db_id == nextId
           kids  == [i \in 1..Len(node.children) |->
                        [node |-> node.children[i], parent_db_id |-> db_id,
                         level |-> f.level + 1, index |-> i - 1]]
           todo  == kids \o Tail(run.todo)
       IN  IF \/ \E r \in doc_nodes : /\ r.tree_id = run.tree_id
                                      /\ r.node_level = f.level
                                      /\ r.node_index = f.index
              \/ ~\E t \in doc_trees : t.tree_id = run.tree_id
              \/ /\ f.parent_db_id # NULL
                 /\ ~\E r \in doc_nodes : r.id = f.parent_db_id
           THEN /\ run' = Raised(run)
                /\ UNCHANGED <<doc_nodes, nextId>>
           ELSE /\ doc_nodes' = doc_nodes \cup
                      {[id |-> db_id, tree_id |-> run.tree_id,
                        parent_id |-> f.parent_db_id, node_level |-> f.level,
                        node_index |-> f.index, title |-> node.title,
                        char_start |-> node.char_start, char_end |-> node.char_end,
                        embedding |-> NULL]}
                /\ nextId' = nextId + 1
                /\ run' = [run EXCEPT !.todo = todo, !.node_count = @ + 1,
                              !.pc = IF todo = <<>> THEN "update_tree" ELSE "save_nodes"]
    /\ UNCHANGED <<page, documents, doc_trees, document_chunks, chunk_embeddings,
                   runs, faults, search, status, client>>

\* What the chunk loop does after the chunk at position i (0-based).
AfterChunk(r, i) ==
    IF i + 1 < Len(r.chunks)
    THEN [r EXCEPT !.pc = "insert_chunk", !.i = i + 1]
    ELSE [r EXCEPT !.pc = "done", !.i = i + 1]

\* step 4: UPDATE doc_trees SET total_nodes; step 5: get_all_chunks
UpdateTree ==
    /\ run.pc = "update_tree"
    /\ doc_trees' = {IF t.tree_id = run.tree_id
                     THEN [t EXCEPT !.total_nodes = run.node_count] ELSE t
                     : t \in doc_trees}
    /\ LET chunks == get_all_chunks(run.nodes, DefaultChunkSize, DefaultOverlap)
       IN  run' = [run EXCEPT !.chunks = chunks, !.i = 0,
                       !.pc = IF chunks = <<>> THEN "done" ELSE "insert_chunk"]
    /\ UNCHANGED <<page, documents, doc_nodes, document_chunks, chunk_embeddings,
                   runs, faults, nextId, search, status, client>>

\* step 6: INSERT INTO document_chunks ... RETURNING id.  node_id is the
\* parser's id of the node, stored as the query of hybrid_search reads it
\* (text compared with dn.id::text).
InsertChunk ==
    /\ run.pc = "insert_chunk"
    /\ LET chunk == run.chunks[run.i + 1]
           row   == [id |-> nextId, document_id |-> run.document_id,
                     chunk_index |-> ChunkIndex(run.i), content |-> chunk.content,
                     node_path |-> chunk.node_path, level |-> chunk.level,
                     node_id |-> NodeUuid(run, chunk.node_id)]
       IN  IF /\ row.document_id \in documents
              /\ row.chunk_index > 0
              /\ ~\E c \in document_chunks : /\ c.document_id = row.document_id
                                            /\ c.chunk_index = row.chunk_index
           THEN /\ document_chunks' = document_chunks \cup {row}
                /\ nextId' = nextId + 1
                /\ run' = IF run.registry
                          THEN [run EXCEPT !.pc = "embed", !.chunk_id = row.id]
                          ELSE AfterChunk([run EXCEPT !.chunk_id = row.id], run.i)
           ELSE /\ run' = Raised(run)
                /\ UNCHANGED <<document_chunks, nextId>>
    /\ UNCHANGED <<page, documents, doc_trees, doc_nodes, chunk_embeddings,
                   runs, faults, search, status, client>>

\* EmbeddingService.embed_single_with_usage returns
EmbedChunk ==
    /\ run.pc = "embed"
    /\ run' = [run EXCEPT !.pc = "insert_embedding"]
    /\ UNCHANGED <<page, store, runs, faults, nextId, search, status, client>>

\* INSERT INTO chunk_embeddings
InsertEmbedding ==
    /\ run.pc = "insert_embedding"
    /\ IF \E c \in document_chunks : c.id = run.chunk_id
       THEN /\ chunk_embeddings' = chunk_embeddings \cup
                  {[chunk_id |-> run.chunk_id, model_id |-> EmbeddingModel,
                    embedding |-> EmbedText(run.chunks[run.i + 1].content)]}
            /\ run' = AfterChunk(run, run.i)
       ELSE /\ run' = Raised(run)
            /\ UNCHANGED chunk_embeddings
    /\ UNCHANGED <<page, documents, doc_trees, doc_nodes, document_chunks,
                   runs, faults, nextId, search, status, client>>

\* a call to the store raises (connection lost, statement failed)
StoreFails ==
    /\ run.pc \in {"insert_tree", "save_nodes", "update_tree", "insert_chunk",
                   "insert_embedding"}
    /\ faults < MaxFaults
    /\ run' = Raised(run)
    /\ faults' = faults + 1
    /\ UNCHANGED <<page, store, runs, nextId, search, status, client>>

\* the call to the embedding provider raises
EmbedFails ==
    /\ run.pc = "embed"
    /\ faults < MaxFaults
    /\ run' = Raised(run)
    /\ faults' = faults + 1
    /\ UNCHANGED <<page, store, runs, nextId, search, status, client>>

\* ON DELETE CASCADE of doc_trees.document_id, doc_nodes.tree_id,
\* document_chunks.document_id and chunk_embeddings.chunk_id: the rows that
\* are left when the documents row of d is deleted.
TreesAfterDelete(d) == doc_trees \ TreesOf(d)
NodesAfterDelete(d) == doc_nodes \ NodesOf(d)
ChunksAfterDelete(d) == document_chunks \ ChunksOf(d)

\* The cascade to the embeddings is missing.
EmbeddingsKept(d) == chunk_embeddings

EmbeddingsAfterDelete(d) ==
    {e \in chunk_embeddings : \A c \in ChunksOf(d) : e.chunk_id # c.id}

\* The delete-document operation: DELETE of the documents row of d, with
\* the cascades of the schema.
DeleteDocument(d) ==
    /\ d \in documents
    /\ documents' = documents \ {d}
    /\ doc_trees' = TreesAfterDelete(d)
    /\ doc_nodes' = NodesAfterDelete(d)
    /\ document_chunks' = ChunksAfterDelete(d)
    /\ chunk_embeddings' = EmbeddingsAfterDelete(d)
    /\ status' = [x \in DOMAIN status \ {d} |-> status[x]]
    /\ run' = IF run.document_id = d /\ run.pc \notin {"idle", "done", "failed"}
              THEN [run EXCEPT !.orphaned = TRUE] ELSE run
    /\ UNCHANGED <<page, runs, faults, nextId, search, client>>

Next ==
    \/ \E l \in IndexLineSet : AddLine(l)
    \/ \E d \in DocIds : DeleteDocument(d)
    \/ \E d \in DocIds, reg \in BOOLEAN : StartBuild(d, reg)
    \/ InsertTree
    \/ SaveNode
    \/ UpdateTree
    \/ InsertChunk
    \/ EmbedChunk
    \/ InsertEmbedding
    \/ StoreFails
    \/ EmbedFails

Spec == InitIndex /\ [][Next]_vars

\* ============================================================ retrieval
\* 1 - (embedding <=> query): 1.0 for the query's own vector, 0.7 otherwise.
Sim(q, e) == IF q = e THEN One ELSE (One * 7) \div 10

RECURSIVE KSubsets(_, _)
KSubsets(S, k) ==
    IF k = 0 THEN {{}}
    ELSE UNION {{X \cup {x} : X \in KSubsets(S \ {x}, k - 1)} : x \in S}

\* The row sets "... FROM doc_nodes WHERE embedding IS NOT NULL ORDER BY
\* embedding <=> $1 LIMIT 10" can return: rows of equal distance come in any
\* order, so any of them may be the ones the limit cuts off.
RoutedSets(q) ==
    LET emb    == {n \in doc_nodes : n.embedding # NULL}
        excess == Cardinality(emb) - RoutingLimit
    IN  IF excess <= 0 THEN {emb}
        ELSE {emb \ X : X \in {Y \in KSubsets(emb, excess) :
                 \A y \in Y, a \in emb \ Y : Sim(q, a.embedding) >= Sim(q, y.embedding)}}

\* node_scores = {n["node_id"]: n["score"] for n in relevant_nodes}
NodeScores(relevant_nodes, q) ==
    [id \in {n.id : n \in relevant_nodes} |->
        Sim(q, (CHOOSE n \in relevant_nodes : n.id = id).embedding)]

\* The rows of chunk_sql: chunk_embeddings joined with document_chunks, at
\* least min_score similar to the query.
ChunkRows(q, min_score, document_ids) ==
    {[chunk_id |-> dc.id, document_id |-> dc.document_id, node_id |-> dc.node_id,
      vector_score |-> Sim(q, ce.embedding)] :
        <<ce, dc>> \in {p \in chunk_embeddings \X document_chunks :
                           /\ p[1].chunk_id = p[2].id
                           /\ Sim(q, p[1].embedding) >= min_score}}

\* The lists "ORDER BY ce.embedding <=> $1 LIMIT $3" can return.
ChunkFetches(q, min_score, document_ids, limit) ==
    LET rows == ChunkRows(q, min_score, document_ids)
        m    == Min(limit, Cardinality(rows))
    IN  {f \in [1..m -> rows] :
            /\ \A i, j \in 1..m : i < j =>
                   f[i] # f[j] /\ f[i].vector_score >= f[j].vector_score
            /\ \A r \in rows : (\A i \in 1..m : f[i] # r) =>
                   \A i \in 1..m : f[i].vector_score >= r.vector_score}

\* The cap is forgotten.
FinalScoreUncapped(vector_score, node_boost) == vector_score + node_boost

\* final_score = min(vector_score + node_boost, 1.0)
FinalScore(vector_score, node_boost) == Min(vector_score + node_boost, One)

\* Every chunk is boosted as if its node had been routed with score 1.0.
NodeBoostUnconditional(node_id, node_scores) == (One * BoostNum) \div BoostDen

\* node_boost of a chunk
NodeBoost(node_id, node_scores) ==
    IF node_id # NULL /\ node_id \in DOMAIN node_scores
    THEN (node_scores[node_id] * BoostNum) \div BoostDen
    ELSE 0

\* Body of "for chunk in chunks"
Fuse(chunk, node_scores) ==
    LET node_boost == NodeBoost(chunk.node_id, node_scores)
    IN  [chunk_id |-> chunk.chunk_id, document_id |-> chunk.document_id,
         score |-> FinalScore(chunk.vector_score, node_boost),
         vector_score |-> chunk.vector_score, node_boost |-> node_boost]

\* results.sort(key=score, reverse=True): stable, equal scores keep their
\* order.
\* An unstable sort: a result goes in front of the results of equal score.
RECURSIVE InsertByScoreUnstable(_, _)
InsertByScoreUnstable(sorted, r) ==
    IF sorted = <<>> THEN <<r>>
    ELSE IF Head(sorted).score > r.score
    THEN <<Head(sorted)>> \o InsertByScoreUnstable(Tail(sorted), r)
    ELSE <<r>> \o sorted

RECURSIVE InsertByScore(_, _)
InsertByScore(sorted, r) ==
    IF sorted = <<>> THEN <<r>>
    ELSE IF Head(sorted).score >= r.score
    THEN <<Head(sorted)>> \o InsertByScore(Tail(sorted), r)
    ELSE <<r>> \o sorted

RECURSIVE SortByScore(_)
SortByScore(results) ==
    IF results = <<>> THEN <<>>
    ELSE InsertByScore(SortByScore(SubSeq(results, 1, Len(results) - 1)),
                       results[Len(results)])

\* hybrid_search, given what the two queries returned
hybrid_search(relevant_nodes, chunks, q, top_k) ==
    LET node_scores == NodeScores(relevant_nodes, q)
        results == SortByScore([i \in 1..Len(chunks) |-> Fuse(chunks[i], node_scores)])
    IN  SubSeq(results, 1, Min(top_k, Len(results)))

\* The store of a retrieval: two documents with one tree each; n1 is the
\* root of d1's tree, n2 the root of d2's, and d2's tree may have ten more
\* sections with embeddings.  d1 has a first chunk, linked to no node and
\* not near the query.
SearchDocs == {"d1", "d2"}
TreeOf(d) == IF d = "d1" THEN 1 ELSE 2
RootOf(d) == IF d = "d1" THEN 3 ELSE 4

NodeRow(id, tree, level, idx, e) ==
    [id |-> id, tree_id |-> tree, parent_id |-> IF level = 0 THEN NULL ELSE RootOf("d2"),
     node_level |-> level, node_index |-> idx, title |-> <<"a">>,
     char_start |-> 0, char_end |-> 1, embedding |-> e]

Sections(e) == {NodeRow(100 + k, TreeOf("d2"), 1, k, e) : k \in 1..RoutingLimit}

InitSearch ==
    /\ content = <<"x">>
    /\ chunkSize = DefaultChunkSize
    /\ overlap = DefaultOverlap
    /\ min_chunk_size = 1
    /\ root = NoResult
    /\ preview = NoResult
    /\ committed = NoResult
    /\ split = NoResult
    /\ documents = SearchDocs
    /\ doc_trees = {[tree_id |-> TreeOf(d), document_id |-> d, total_nodes |-> 1]
                       : d \in SearchDocs}
    /\ \E e1 \in Vectors \cup {NULL}, more \in BOOLEAN :
           doc_nodes = {NodeRow(RootOf("d1"), TreeOf("d1"), 0, 0, e1),
                        NodeRow(RootOf("d2"), TreeOf("d2"), 0, 0, 2)}
                       \cup (IF more THEN Sections(1) ELSE {})
    /\ document_chunks = {[id |-> 5, document_id |-> "d1", chunk_index |-> 1,
                            content |-> <<"x">>, node_path |-> <<"a">>, level |-> 0,
                            node_id |-> NULL]}
    /\ chunk_embeddings = {[chunk_id |-> 5, model_id |-> EmbeddingModel, embedding |-> 2]}
    /\ run = IdleRun
    /\ runs = 0
    /\ faults = 0
    /\ nextId = 6
    /\ search = NoSearch
    /\ status = NoStatus
    /\ sse = NotOpen
    /\ chat = NotOpen
    /\ pv = NotOpen

\* A chunk of document d, linked to d's root node or to none, and its
\* embedding are in the store; d1 is indexed before d2.
PutChunk(d, linked, e) ==
    /\ ~search.done
    /\ d \in documents
    /\ d = "d1" => ChunksOf("d2") = {}
    /\ Cardinality(document_chunks) < MaxChunks
    /\ document_chunks' = document_chunks \cup
           {[id |-> nextId, document_id |-> d,
             chunk_index |-> Cardinality(ChunksOf(d)) + 1, content |-> <<"x">>,
             node_path |-> <<"a">>, level |-> 0,
             node_id |-> IF linked THEN RootOf(d) ELSE NULL]}
    /\ chunk_embeddings' = chunk_embeddings \cup
           {[chunk_id |-> nextId, model_id |-> EmbeddingModel, embedding |-> e]}
    /\ nextId' = nextId + 1
    /\ UNCHANGED <<page, documents, doc_trees, doc_nodes, run, runs, faults, search, status, client>>

\* One call of hybrid_search on the store as it stands (the retriever keeps
\* no state between calls, so one call per behaviour shows them all).
HybridSearch(q, top_k, min_score, document_ids) ==
    /\ ~search.done
    /\ \E relevant_nodes \in RoutedSets(q),
          chunks \in ChunkFetches(q, min_score, document_ids, top_k * 2) :
           search' = [done |-> TRUE, query_embedding |-> q, top_k |-> top_k,
                      min_score |-> min_score, document_ids |-> document_ids,
                      results |-> hybrid_search(relevant_nodes, chunks, q, top_k)]
    /\ UNCHANGED <<page, store, run, runs, faults, nextId, status, client>>

NextSearch ==
    \/ \E d \in SearchDocs : ~search.done /\ DeleteDocument(d)
    \/ \E d \in SearchDocs, linked \in BOOLEAN, e \in Vectors : PutChunk(d, linked, e)
    \/ \E q \in QueryVectors, top_k \in 1..MaxTopK, min_score \in {DefaultMinScore, One},
          document_ids \in {{}, {"d1"}} : HybridSearch(q, top_k, min_score, document_ids)

SpecSearch == InitSearch /\ [][NextSearch]_vars

\* ===================================================== document status
\* The documents whose status is followed.
StatusDocs == {"d1", "d2", "d3"}

\* The status values the documents page knows: the filter of the document
\* list offers completed, processing, queued and failed.
Statuses == {"queued", "processing", "completed", "failed"}

InitStatus ==
    /\ content = <<"x">>
    /\ chunkSize = DefaultChunkSize
    /\ overlap = DefaultOverlap
    /\ min_chunk_size = 1
    /\ root = NoResult
    /\ preview = NoResult
    /\ committed = NoResult
    /\ split = NoResult
    /\ documents = {}
    /\ doc_trees = {}
    /\ doc_nodes = {}
    /\ document_chunks = {}
    /\ chunk_embeddings = {}
    /\ run = IdleRun
    /\ runs = 0
    /\ faults = 0
    /\ nextId = 1
    /\ search = NoSearch
    /\ status = NoStatus
    /\ sse = NotOpen
    /\ chat = NotOpen
    /\ pv = NotOpen

\* INSERT INTO documents: status TEXT NOT NULL DEFAULT 'queued'
CreateDocument(d) ==
    /\ d \notin documents
    /\ documents' = documents \cup {d}
    /\ status' = (d :> "queued") @@ status
    /\ UNCHANGED <<page, doc_trees, doc_nodes, document_chunks, chunk_embeddings,
                   run, runs, faults, nextId, search, client>>

\* the worker takes the upload task of d from the queue
WorkerStarts(d) ==
    /\ d \in documents
    /\ status[d] = "queued"
    /\ status' = [status EXCEPT ![d] = "processing"]
    /\ UNCHANGED <<page, store, run, runs, faults, nextId, search, client>>

\* the worker has stored the chunks and embeddings of d
WorkerCompletes(d) ==
    /\ d \in documents
    /\ status[d] = "processing"
    /\ status' = [status EXCEPT ![d] = "completed"]
    /\ UNCHANGED <<page, store, run, runs, faults, nextId, search, client>>

\* the task of d failed
WorkerFails(d) ==
    /\ d \in documents
    /\ status[d] \in {"queued", "processing"}
    /\ status' = [status EXCEPT ![d] = "failed"]
    /\ UNCHANGED <<page, store, run, runs, faults, nextId, search, client>>

NextStatus ==
    \/ \E d \in StatusDocs : CreateDocument(d)
    \/ \E d \in StatusDocs : WorkerStarts(d)
    \/ \E d \in StatusDocs : WorkerCompletes(d)
    \/ \E d \in StatusDocs : WorkerFails(d)

SpecStatus == InitStatus /\ [][NextStatus]_vars

\* ==================================================== streaming client
\* The stream is a sequence of bytes.  An ASCII character is one byte; Wide
\* stands for a character that UTF-8 encodes in two bytes, Lead and Trail.
Wide == "W"
Lead == "w1"
Trail == "w2"
\* U+FFFD, which the decoder puts in place of a malformed sequence
Replacement == "?"
Quote == "\""

EventField == <<"e", "v", "e", "n", "t", ":">>
DataField == <<"d", "a", "t", "a", ":">>
ChunkName == <<"c", "h", "u", "n", "k">>
DoneName == <<"d", "o", "n", "e">>
ErrorName == <<"e", "r", "r", "o", "r">>
PingName == <<"p", "i", "n", "g">>
TextKey == <<Quote, "t", "e", "x", "t", Quote, ":">>
MessageKey == <<Quote, "m", "e", "s", "s", "a", "g", "e", Quote, ":">>

\* The events the server sends, as it writes them: "event: <name>", a
\* newline and "data: <json>"; every event is followed by an empty line.
EventBlock(name, json) ==
    EventField \o <<SP>> \o name \o <<NL>> \o DataField \o <<SP>> \o json

Blocks ==
    [chunk |-> EventBlock(ChunkName, <<"{">> \o TextKey \o <<Quote, Wide, Quote, "}">>),
     done  |-> EventBlock(DoneName, <<"{", "}">>),
     error |-> EventBlock(ErrorName, <<"{">> \o MessageKey \o <<Quote, "m", Quote, "}">>),
     ping  |-> EventBlock(PingName, <<"{", "}">>)]

EventKinds == DOMAIN Blocks

\* charset=utf-8
RECURSIVE Encode(_)
Encode(text) ==
    IF text = <<>> THEN <<>>
    ELSE (IF Head(text) = Wide THEN <<Lead, Trail>> ELSE <<Head(text)>>)
         \o Encode(Tail(text))

\* The bytes of a response that carries the events evs; a response that is
\* not whole lacks its last byte (the connection broke).
StreamOf(evs, whole) ==
    LET bytes == Flatten([i \in 1..Len(evs) |-> Encode(Blocks[evs[i]] \o <<NL, NL>>)])
    IN  IF whole \/ bytes = <<>> THEN bytes ELSE SubSeq(bytes, 1, Len(bytes) - 1)

\* The bytes with their positions.
Indexed(bytes) == [i \in 1..Len(bytes) |-> [at |-> i, byte |-> bytes[i]]]

\* A UTF-8 decoder over the bytes: a Lead and the Trail after it make the
\* Wide character, a Lead or a Trail on its own is malformed.  A Lead at the
\* end is incomplete: it is malformed when the decoder is flushed and is
\* left out, to wait for the next bytes, when it is not.
Utf8Text(bytes, flush) ==
    LET paired(i)  == i > 1 /\ bytes[i] = Trail /\ bytes[i - 1] = Lead
        waiting(i) == i = Len(bytes) /\ bytes[i] = Lead /\ ~flush
        kept == SelectSeq(Indexed(bytes), LAMBDA e : ~paired(e.at) /\ ~waiting(e.at))
        char(i) == IF bytes[i] = Lead
                   THEN IF i < Len(bytes) /\ bytes[i + 1] = Trail THEN Wide ELSE Replacement
                   ELSE IF bytes[i] = Trail THEN Replacement
                   ELSE bytes[i]
    IN  [k \in 1..Len(kept) |-> char(kept[k].at)]

\* decoder.decode(value, { stream: true }): the incomplete sequence at the
\* end of a value is kept for the next call.
Decode(pending, value) ==
    LET bytes == pending \o value
    IN  [text |-> Utf8Text(bytes, FALSE),
         pending |-> IF bytes # <<>> /\ bytes[Len(bytes)] = Lead THEN <<Lead>> ELSE <<>>]

\* The block left in the buffer is dropped: buffer = decoded text.
ReceivedAlone(buffer, text) == text

\* buffer += decoder.decode(...)
Received(buffer, text) == buffer \o text

StartsWith(s, p) == Len(s) >= Len(p) /\ SubSeq(s, 1, Len(p)) = p

\* The loop over the lines of parseSseBlock.  acc = [event, dataLines].
RECURSIVE ScanLines(_, _)
ScanLines(lines, acc) ==
    IF lines = <<>> THEN acc
    ELSE LET line == Head(lines)
         IN  ScanLines(Tail(lines),
                 IF StartsWith(line, EventField)
                 THEN [acc EXCEPT !.event = Strip(SubSeq(line, 7, Len(line)))]
                 ELSE IF StartsWith(line, DataField)
                 THEN [acc EXCEPT !.dataLines = Append(@, Strip(SubSeq(line, 6, Len(line))))]
                 ELSE acc)

\* dataLines.join("\n")
RECURSIVE JoinLines(_)
JoinLines(dataLines) ==
    IF dataLines = <<>> THEN <<>>
    ELSE IF Len(dataLines) = 1 THEN dataLines[1]
    ELSE dataLines[1] \o <<NL>> \o JoinLines(Tail(dataLines))

\* parseSseBlock returns null
NoBlock == [null |-> TRUE]

parseSseBlock(block) ==
    LET trimmed == Strip(block)
        acc == ScanLines(SplitLines(trimmed),
                         [event |-> <<"m", "e", "s", "s", "a", "g", "e">>, dataLines |-> <<>>])
    IN  IF trimmed = <<>> THEN NoBlock
        ELSE [event |-> acc.event, data |-> JoinLines(acc.dataLines)]

\* A JSON string without escapes.
IsStringLiteral(s) ==
    /\ Len(s) >= 2
    /\ s[1] = Quote
    /\ s[Len(s)] = Quote
    /\ \A i \in 2..(Len(s) - 1) : s[i] # Quote

\* The object {}: neither text nor message (String(undefined || "") is "").
EmptyObject == [ok |-> TRUE, text |-> <<>>, message |-> <<>>]

\* JSON.parse throws a SyntaxError
SyntaxError == [ok |-> FALSE, text |-> <<>>, message |-> <<>>]

\* JSON.parse of the payloads of the protocol: {}, {"text":"..."} and
\* {"message":"..."}; a text that is not JSON makes it throw.
JsonParse(s) ==
    LET inner == SubSeq(s, 2, Len(s) - 1)
        value(key) == SubSeq(inner, Len(key) + 1, Len(inner))
        unquoted(v) == SubSeq(v, 2, Len(v) - 1)
    IN  IF Len(s) < 2 \/ s[1] # "{" \/ s[Len(s)] # "}" THEN SyntaxError
        ELSE IF inner = <<>> THEN EmptyObject
        ELSE IF StartsWith(inner, TextKey) /\ IsStringLiteral(value(TextKey))
        THEN [EmptyObject EXCEPT !.text = unquoted(value(TextKey))]
        ELSE IF StartsWith(inner, MessageKey) /\ IsStringLiteral(value(MessageKey))
        THEN [EmptyObject EXCEPT !.message = unquoted(value(MessageKey))]
        ELSE SyntaxError

\* After onDone the loop goes on: the return is missing.
HandleEventReadsOn(st, parsed) ==
    LET eventData == IF parsed.data # <<>> THEN JsonParse(parsed.data) ELSE EmptyObject
    IN  IF ~eventData.ok THEN [st EXCEPT !.outcome = "rejected"]
        ELSE IF parsed.event = ChunkName
        THEN [st EXCEPT !.calls = Append(@, [handler |-> "onChunk", text |-> eventData.text])]
        ELSE IF parsed.event = DoneName
        THEN [st EXCEPT !.calls = Append(@, [handler |-> "onDone", text |-> <<>>])]
        ELSE IF parsed.event = ErrorName
        THEN [st EXCEPT !.outcome = "rejected"]
        ELSE st

\* What postSseJson does with a parsed block.  st = [buffer, calls,
\* outcome]: a return resolves the promise, a throw rejects it.
HandleEvent(st, parsed) ==
    LET eventData == IF parsed.data # <<>> THEN JsonParse(parsed.data) ELSE EmptyObject
    IN  IF ~eventData.ok THEN [st EXCEPT !.outcome = "rejected"]
        ELSE IF parsed.event = ChunkName
        THEN [st EXCEPT !.calls = Append(@, [handler |-> "onChunk", text |-> eventData.text])]
        ELSE IF parsed.event = DoneName
        THEN [st EXCEPT !.calls = Append(@, [handler |-> "onDone", text |-> <<>>]),
                        !.outcome = "resolved"]
        ELSE IF parsed.event = ErrorName
        THEN [st EXCEPT !.outcome = "rejected"]
        ELSE st

\* buffer.indexOf("\n\n"), 1-based; 0 when there is none.
Boundary(buffer) ==
    LET found == SelectSeq(Indexed(buffer),
                           LAMBDA e : /\ e.at < Len(buffer)
                                      /\ buffer[e.at] = NL
                                      /\ buffer[e.at + 1] = NL)
    IN  IF found = <<>> THEN 0 ELSE found[1].at

\* The inner loop: the blocks that are complete in the buffer, in order.
RECURSIVE Drain(_)
Drain(st) ==
    LET boundary == Boundary(st.buffer)
        block    == SubSeq(st.buffer, 1, boundary - 1)
        next     == [st EXCEPT !.buffer = SubSeq(st.buffer, boundary + 2, Len(st.buffer))]
        parsed   == parseSseBlock(block)
    IN  IF st.outcome # "reading" \/ boundary = 0 THEN st
        ELSE Drain(IF parsed = NoBlock THEN next ELSE HandleEvent(next, parsed))

EventSeqs == UNION {[1..n -> EventKinds] : n \in 0..MaxEvents}

InitSse ==
    /\ content = <<"x">>
    /\ chunkSize = DefaultChunkSize
    /\ overlap = DefaultOverlap
    /\ min_chunk_size = 1
    /\ root = NoResult
    /\ preview = NoResult
    /\ committed = NoResult
    /\ split = NoResult
    /\ documents = {}
    /\ doc_trees = {}
    /\ doc_nodes = {}
    /\ document_chunks = {}
    /\ chunk_embeddings = {}
    /\ run = IdleRun
    /\ runs = 0
    /\ faults = 0
    /\ nextId = 1
    /\ search = NoSearch
    /\ status = NoStatus
    /\ \E evs \in EventSeqs, whole \in BOOLEAN :
           sse = [NoStream EXCEPT !.events = evs, !.whole = whole,
                                  !.stream = StreamOf(evs, whole),
                                  !.rest = StreamOf(evs, whole),
                                  !.outcome = "fetching"]
    /\ chat = NotOpen
    /\ pv = NotOpen

\* await fetch(...): a response that is not ok, or has no body, makes
\* postSseJson throw before it reads.
FetchResponds(ok) ==
    /\ sse.outcome = "fetching"
    /\ sse' = [sse EXCEPT !.outcome = IF ok THEN "reading" ELSE "rejected"]
    /\ UNCHANGED <<page, store, build, chat, pv>>

\* await reader.read() returns the next n bytes; the decoded text is added
\* to the buffer and the complete blocks are handled.
ReadValue(n) ==
    /\ sse.outcome = "reading"
    /\ n \in 1..Len(sse.rest)
    /\ n <= MaxRead \/ n = Len(sse.rest)
    /\ LET value == SubSeq(sse.rest, 1, n)
           d     == Decode(sse.pending, value)
           st    == Drain([buffer |-> Received(sse.buffer, d.text),
                           calls |-> sse.calls, outcome |-> "reading"])
       IN  sse' = [sse EXCEPT
                      !.rest = SubSeq(sse.rest, n + 1, Len(sse.rest)),
                      !.pending = d.pending,
                      !.buffer = st.buffer,
                      !.calls = st.calls,
                      !.outcome = st.outcome,
                      !.torn = @ \/ /\ st.outcome = "reading"
                                    /\ n < Len(sse.rest)
                                    /\ st.buffer # <<>> \/ d.pending # <<>>]
    /\ UNCHANGED <<page, store, build, chat, pv>>

\* reader.read() returns done: the loop ends and postSseJson throws.
ReadDone ==
    /\ sse.outcome = "reading"
    /\ sse.rest = <<>>
    /\ sse' = [sse EXCEPT !.outcome = "rejected"]
    /\ UNCHANGED <<page, store, build, chat, pv>>

NextSse ==
    \/ \E ok \in BOOLEAN : FetchResponds(ok)
    \/ \E n \in 1..Len(sse.rest) : ReadValue(n)
    \/ ReadDone

SpecSse == InitSse /\ [][NextSse]_vars

\* ============================================================ chat page
\* The documents offered for selection, and what a done event may carry as
\* references (ids of chunks).
ChatDocs == {"d1", "d2"}
ReferenceSets == {{}, {"c1"}}

\* const useRag = selectedDocIds.length > 0
UseRag(selectedDocIds) == Cardinality(selectedDocIds) > 0

\* The body of the request: documentIds is undefined without useRag, and
\* JSON.stringify leaves an undefined member out.
AskRequest(selectedDocIds) ==
    IF UseRag(selectedDocIds)
    THEN [useRag |-> TRUE, documentIds |-> selectedDocIds]
    ELSE [useRag |-> FALSE]

\* The references are set whatever the mode of the request.
ReferencesOfAnyMode(useRag, references) == references

\* onDone: if (useRag && result.references?.length) the references of the
\* result become those of the assistant turn, which starts with none.
ReferencesOf(useRag, references) ==
    IF useRag /\ references # {} THEN references ELSE {}

InitChat ==
    /\ content = <<"x">>
    /\ chunkSize = DefaultChunkSize
    /\ overlap = DefaultOverlap
    /\ min_chunk_size = 1
    /\ root = NoResult
    /\ preview = NoResult
    /\ committed = NoResult
    /\ split = NoResult
    /\ documents = {}
    /\ doc_trees = {}
    /\ doc_nodes = {}
    /\ document_chunks = {}
    /\ chunk_embeddings = {}
    /\ run = IdleRun
    /\ runs = 0
    /\ faults = 0
    /\ nextId = 1
    /\ search = NoSearch
    /\ status = NoStatus
    /\ sse = NotOpen
    /\ chat = NoChat
    /\ pv = NotOpen

\* onChange of the document select, removeSelectedDoc
SetSelectedDocIds(ids) ==
    /\ chat.selectedDocIds # ids
    /\ chat' = [chat EXCEPT !.selectedDocIds = ids]
    /\ UNCHANGED <<page, store, build, sse, pv>>

\* handleSend: the input is disabled while a question is being asked.  The
\* assistant turn is added with no references and the request is sent; the
\* handlers keep the useRag of the moment of sending.
HandleSend ==
    /\ ~chat.asking
    /\ Len(chat.requests) < MaxQuestions
    /\ chat' = [chat EXCEPT
                   !.asking = TRUE,
                   !.requests = Append(@, [payload |-> AskRequest(chat.selectedDocIds),
                                           selected |-> chat.selectedDocIds,
                                           result |-> "none", returned |-> {}]),
                   !.chatTurns = Append(@, [request |-> Len(chat.requests) + 1,
                                            references |-> {}, failed |-> FALSE])]
    /\ UNCHANGED <<page, store, build, sse, pv>>

\* the done event of the request arrives: onDone(result)
OnDone(references) ==
    /\ chat.asking
    /\ LET i == Len(chat.requests)
       IN  chat' = [chat EXCEPT
                       !.asking = FALSE,
                       !.requests[i].result = "done",
                       !.requests[i].returned = references,
                       !.chatTurns[i].references =
                           ReferencesOf(chat.requests[i].payload.useRag, references)]
    /\ UNCHANGED <<page, store, build, sse, pv>>

\* askQuestionStream rejects: the catch branch replaces the answer
AskFails ==
    /\ chat.asking
    /\ LET i == Len(chat.requests)
       IN  chat' = [chat EXCEPT !.asking = FALSE,
                                !.requests[i].result = "failed",
                                !.chatTurns[i].failed = TRUE]
    /\ UNCHANGED <<page, store, build, sse, pv>>

NextChat ==
    \/ \E ids \in SUBSET ChatDocs : SetSelectedDocIds(ids)
    \/ HandleSend
    \/ \E references \in ReferenceSets : OnDone(references)
    \/ AskFails

SpecChat == InitChat /\ [][NextChat]_vars

\* ======================================================= split preview
\* The text of the documents page is a version number: 0 is the empty text
\* the page starts with, every edit gives a new non-blank text.  The chunk
\* list of a text is identified by the text it was made from, 0 being the
\* empty list.

\* const canPreview = content.trim().length > 0
CanPreview(text) == text > 0

\* setChunks(result.items) of the answered request
Shown(shown, requests, i) == requests[i].content

InitPreview ==
    /\ content = <<"x">>
    /\ chunkSize = DefaultChunkSize
    /\ overlap = DefaultOverlap
    /\ min_chunk_size = 1
    /\ root = NoResult
    /\ preview = NoResult
    /\ committed = NoResult
    /\ split = NoResult
    /\ documents = {}
    /\ doc_trees = {}
    /\ doc_nodes = {}
    /\ document_chunks = {}
    /\ chunk_embeddings = {}
    /\ run = IdleRun
    /\ runs = 0
    /\ faults = 0
    /\ nextId = 1
    /\ search = NoSearch
    /\ status = NoStatus
    /\ sse = NotOpen
    /\ chat = NotOpen
    /\ pv = NoPreview

\* runPreview of the render in which the text is `text`
RunPreview(text) ==
    IF CanPreview(text)
    THEN [pv EXCEPT !.requests = Append(@, [content |-> text, state |-> "sent"])]
    ELSE [pv EXCEPT !.chunks = 0]

\* setContent: runPreview is made anew, the effect clears the timer of the
\* previous render and, with auto-preview on, sets one for the new text.
SetContent ==
    /\ pv.content < MaxEdits
    /\ pv' = [pv EXCEPT !.content = pv.content + 1, !.timer = pv.content + 1]
    /\ UNCHANGED <<page, store, build, sse, chat>>

\* the timer of the effect fires after 420 ms: runPreview() of its render
TimerFires ==
    /\ pv.timer > 0
    /\ Len(pv.requests) < MaxPreviews
    /\ pv' = [RunPreview(pv.timer) EXCEPT !.timer = 0]
    /\ UNCHANGED <<page, store, build, sse, chat>>

\* the refresh button: runPreview() of the current render
ManualRefresh ==
    /\ Len(pv.requests) < MaxPreviews
    /\ pv' = RunPreview(pv.content)
    /\ UNCHANGED <<page, store, build, sse, chat>>

\* splitPreview of request i resolves: setChunks(result.items)
PreviewResolves(i) ==
    /\ i \in 1..Len(pv.requests)
    /\ pv.requests[i].state = "sent"
    /\ pv' = [pv EXCEPT !.requests[i].state = "shown",
                        !.chunks = Shown(pv.chunks, pv.requests, i)]
    /\ UNCHANGED <<page, store, build, sse, chat>>

\* splitPreview of request i rejects: the error is shown, the list stays
PreviewRejects(i) ==
    /\ i \in 1..Len(pv.requests)
    /\ pv.requests[i].state = "sent"
    /\ pv' = [pv EXCEPT !.requests[i].state = "failed"]
    /\ UNCHANGED <<page, store, build, sse, chat>>

NextPreview ==
    \/ SetContent
    \/ TimerFires
    \/ ManualRefresh
    \/ \E i \in 1..MaxPreviews : PreviewResolves(i)
    \/ \E i \in 1..MaxPreviews : PreviewRejects(i)

SpecPreview == InitPreview /\ [][NextPreview]_vars

\* =============================================================== claims
\* The half-open character range [char_start, char_end) of a node.
RangeOf(node) == node.char_start..(node.char_end - 1)

ChildRanges(nodes, n) ==
    [i \in 1..Len(nodes[n].children) |-> RangeOf(nodes[nodes[n].children[i]])]

\* C1: after parsing, for every node that has children the children's
\* [char_start, char_end) ranges are pairwise disjoint and their union is
\* exactly the parent's range (no gap, heading lines included, no overlap).
C1_SiblingsTileParent ==
    root.done =>
        \A n \in 1..Len(root.items) :
            LET r == ChildRanges(root.items, n)
            IN  r # <<>> =>
                    /\ UNION {r[i] : i \in 1..Len(r)} = RangeOf(root.items[n])
                    /\ \A i, j \in 1..Len(r) : i # j => r[i] \cap r[j] = {}

\* C4: for the same text, strategy, chunk size and overlap the preview and
\* the committing upload produce the same ordered list of chunks (the same
\* boundaries and contents).
C4_PreviewEqualsCommit ==
    (preview.done /\ committed.done) => preview.items = committed.items

\* The part of chunk c that was not seeded from the previous chunk.
Unseeded(prev, c, ov) == SubSeq(c, Min(Min(ov, Len(prev)), Len(c)) + 1, Len(c))

RECURSIVE Reassemble(_, _)
Reassemble(chunks, ov) ==
    IF Len(chunks) <= 1 THEN Flatten(chunks)
    ELSE Reassemble(SubSeq(chunks, 1, Len(chunks) - 1), ov)
         \o Unseeded(chunks[Len(chunks) - 1], chunks[Len(chunks)], ov)

\* C5: the chunks, each after the first without its overlap-seeded prefix,
\* concatenate to the original text exactly.
C5_ChunksReassembleText ==
    split.done => Reassemble(split.items, overlap) = content

\* C6: every emitted chunk except the final one has length >= min_chunk_size.
C6_OnlyFinalChunkIsShort ==
    split.done =>
        \A i \in 1..(Len(split.items) - 1) : Len(split.items[i]) >= min_chunk_size

\* ------------------------------------------------------ indexing claims

\* No build_index call is in progress.
Quiescent == run.pc \in {"idle", "done", "failed"}

\* The store holds nothing for document d.
HoldsNothing(d) == TreesOf(d) = {} /\ NodesOf(d) = {} /\ ChunksOf(d) = {}

\* The k-th stored chunk of d is the k-th chunk emitted for the text.
StoredAsEmitted(d, emitted) ==
    \A c \in ChunksOf(d) :
        /\ c.chunk_index \in 1..Len(emitted)
        /\ c.content = emitted[c.chunk_index].content
        /\ c.node_path = emitted[c.chunk_index].node_path
        /\ c.level = emitted[c.chunk_index].level

\* The store holds for d the tree, the nodes and the chunks of exactly one
\* indexing run of the text.
HoldsOneRun(d) ==
    LET emitted == BuildChunks(content)
    IN  /\ Cardinality(TreesOf(d)) = 1
        /\ Cardinality(NodesOf(d)) = Len(parse_markdown(content))
        /\ \A t \in TreesOf(d) : t.total_nodes = Len(parse_markdown(content))
        /\ Cardinality(ChunksOf(d)) = Len(emitted)
        /\ {c.chunk_index : c \in ChunksOf(d)} = 1..Len(emitted)
        /\ StoredAsEmitted(d, emitted)

\* C2: indexing the same document id twice with the same input, no call
\* failing, ends without error and leaves exactly the tree, nodes and chunks
\* of one run (nothing duplicated, no uniqueness violation).
C2_ReindexLeavesOneRun ==
    (runs = 2 /\ faults = 0 /\ run.pc \in {"done", "failed"}) =>
        (run.pc = "done" /\ HoldsOneRun(run.document_id))

\* C3: whenever no indexing run is in progress, also after a run that a
\* failing store or provider call interrupted, the store holds for a
\* document either nothing or the complete set of one single run.
C3_NeverHalfIndexed ==
    Quiescent => \A d \in DocIds : HoldsNothing(d) \/ HoldsOneRun(d)

\* C7: the chunk_index values persisted for one document are exactly 1..n,
\* without gap or repeat, and the chunk with index k is the k-th chunk
\* emitted for the document, across all its nodes.
C7_ChunkIndexDense ==
    \A d \in DocIds :
        /\ {c.chunk_index : c \in ChunksOf(d)} = 1..Cardinality(ChunksOf(d))
        /\ StoredAsEmitted(d, BuildChunks(content))

\* A finished run has persisted chunks of two different nodes.
C7_Witness ==
    /\ run.pc = "done"
    /\ \E c1, c2 \in ChunksOf("d1") :
           c1.chunk_index = 1 /\ c2.chunk_index = 2 /\ c1.node_id # c2.node_id

\* ----------------------------------------------------- retrieval claims
ChunkById(id) == CHOOSE c \in document_chunks : c.id = id
EmbeddingOf(id) == (CHOOSE e \in chunk_embeddings : e.chunk_id = id).embedding

\* The node boost result r must carry when the routing query returned the
\* nodes routed: 0.3 of the routing score of the chunk's node if that node
\* is among them, else 0.
ExpectedBoost(r, routed) ==
    LET hit == {n \in routed : n.id = ChunkById(r.chunk_id).node_id}
    IN  IF hit = {} THEN 0
        ELSE (Sim(search.query_embedding, (CHOOSE n \in hit : TRUE).embedding) * 3) \div 10

\* C8: for every returned chunk final_score = min(vector_score + node_boost,
\* 1.0), node_boost being 0.3 times the routing score of the chunk's node
\* when that node is one of the top-N routed nodes and 0 otherwise; so
\* final_score never exceeds 1.0.
C8_FusionScore ==
    search.done =>
        \E routed \in RoutedSets(search.query_embedding) :
            \A i \in 1..Len(search.results) :
                LET r == search.results[i]
                IN  /\ r.vector_score = Sim(search.query_embedding, EmbeddingOf(r.chunk_id))
                    /\ r.node_boost = ExpectedBoost(r, routed)
                    /\ r.score = Min(r.vector_score + r.node_boost, 1000)
                    /\ r.score <= 1000

\* A search returned a boosted chunk whose score was capped, together with
\* a chunk that got no boost.
C8_Witness ==
    /\ search.done
    /\ \E i, j \in 1..Len(search.results) :
           /\ search.results[i].node_boost > 0
           /\ search.results[i].vector_score + search.results[i].node_boost > 1000
           /\ search.results[j].node_boost = 0

\* C9: the returned list is sorted by final_score descending, results of
\* equal final_score in ascending chunk_index order.
C9_SortedWithTieBreak ==
    search.done =>
        \A i, j \in 1..Len(search.results) : i < j =>
            LET a == search.results[i]
                b == search.results[j]
            IN  \/ a.score > b.score
                \/ /\ a.score = b.score
                   /\ ChunkById(a.chunk_id).chunk_index <= ChunkById(b.chunk_id).chunk_index

\* C10: called with a non-empty set of candidate document ids, the
\* retriever returns only chunks of those documents.
C10_OnlyCandidateDocuments ==
    (search.done /\ search.document_ids # {}) =>
        \A i \in 1..Len(search.results) :
            search.results[i].document_id \in search.document_ids

\* The rows the chunk query of the search could return.
Retrievable == ChunkRows(search.query_embedding, search.min_score, search.document_ids)

\* C11: when no retrievable chunk carries a node id (flat strategy), the
\* retrieval succeeds, node_boost = 0 and final_score = vector_score for
\* every result, and the results are the plain vector ranking: the top_k
\* rows by vector similarity, in descending order.
C11_FlatFallsBackToVectorRanking ==
    (search.done /\ \A c \in Retrievable : c.node_id = NULL) =>
        /\ Len(search.results) = Min(search.top_k, Cardinality(Retrievable))
        /\ \A i \in 1..Len(search.results) :
               LET r == search.results[i]
               IN  /\ r.node_boost = 0
                   /\ r.score = r.vector_score
                   /\ \A j \in 1..Len(search.results) :
                          i < j => r.vector_score >= search.results[j].vector_score
                   /\ \A c \in Retrievable :
                          (\A j \in 1..Len(search.results) :
                               search.results[j].chunk_id # c.chunk_id)
                              => r.vector_score >= c.vector_score

\* A search over unlinked chunks only, with embedded nodes in the store,
\* returned two results of different similarity and left a chunk out.
C11_Witness ==
    /\ search.done
    /\ \A c \in Retrievable : c.node_id = NULL
    /\ RoutedSets(search.query_embedding) # {{}}
    /\ Len(search.results) = 2
    /\ search.results[1].vector_score > search.results[2].vector_score
    /\ Cardinality(Retrievable) > 2

\* Node n is the top-1 node of the routing: embedded and nearer to the
\* query than every other embedded node.
TopRouted(n) ==
    /\ n.embedding # NULL
    /\ \A m \in doc_nodes : (m # n /\ m.embedding # NULL) =>
           Sim(search.query_embedding, n.embedding) > Sim(search.query_embedding, m.embedding)

\* Chunk c is the one chunk whose embedding the query matches exactly.
ExactMatch(c) ==
    /\ Sim(search.query_embedding, EmbeddingOf(c.id)) = 1000
    /\ \A o \in document_chunks : (o # c /\ \E e \in chunk_embeddings : e.chunk_id = o.id)
           => Sim(search.query_embedding, EmbeddingOf(o.id)) < 1000

ParentOf(nodes, n) ==
    CHOOSE p \in 1..Len(nodes) : \E i \in 1..Len(nodes[p].children) : nodes[p].children[i] = n

\* The titles from the root (node 1) down to n, following the parent links.
RECURSIVE TitlesTo(_, _)
TitlesTo(nodes, n) ==
    IF n = 1 THEN <<nodes[1].title>>
    ELSE Append(TitlesTo(nodes, ParentOf(nodes, n)), nodes[n].title)

\* C13: every chunk emitted for the pageindex strategy has as node_path the
\* non-empty sequence of the titles of its node's ancestors, from the root
\* down, ending with the title of its own node.
C13_NodePathIsAncestorTitles ==
    committed.done =>
        \A i \in 1..Len(committed.items) :
            LET chunk  == committed.items[i]
                nodes  == parse_markdown(content)
                titles == TitlesTo(nodes, chunk.node_id)
            IN  /\ titles # <<>>
                /\ titles[Len(titles)] = nodes[chunk.node_id].title
                /\ chunk.node_path = JoinPath(titles)

\* A chunk of a section three headings deep was emitted.
C13_Witness ==
    /\ committed.done
    /\ \E i \in 1..Len(committed.items) :
           Len(TitlesTo(parse_markdown(content), committed.items[i].node_id)) = 4

\* The last k and the first k characters of a text (all of it if shorter).
LastK(s, k) == SubSeq(s, Len(s) - Min(k, Len(s)) + 1, Len(s))
FirstK(s, k) == SubSeq(s, 1, Min(k, Len(s)))

\* C14: chunking with overlap = k > 0 that emits more than one chunk: the
\* first k characters of every chunk after the first are the last k
\* characters of the chunk emitted before it.
C14_OverlapIsTailOfEmitted ==
    (split.done /\ overlap > 0) =>
        \A i \in 2..Len(split.items) :
            FirstK(split.items[i], overlap) = LastK(split.items[i - 1], overlap)

\* -------------------------------------------------------------- status
\* The transitions of the indexing lifecycle.
Lifecycle ==
    {<<"queued", "parsing">>, <<"parsing", "chunking">>, <<"chunking", "embedding">>,
     <<"embedding", "completed">>}
    \cup {<<s, "failed">> : s \in {"queued", "parsing", "chunking", "embedding"}}

EmbeddingsOf(c) == {e \in chunk_embeddings : e.chunk_id = c.id}

\* C16: when an indexing run has finished, either it ended in failure or
\* it reports success and every chunk of the document has exactly one
\* embedding; a run that embedded none does not report success.
C16_SuccessMeansAllEmbedded ==
    run.pc = "done" =>
        \A c \in ChunksOf(run.document_id) : Cardinality(EmbeddingsOf(c)) = 1

\* C17: a document deleted while its indexing run is in flight: the run
\* stops without raising, and once it has stopped the store holds no tree,
\* node, chunk or embedding of the document.
C17_DeleteInFlightAbortsSilently ==
    (run.orphaned /\ run.pc \in {"done", "failed"} /\ faults = 0) =>
        /\ run.pc = "done"
        /\ HoldsNothing(run.document_id)
        /\ \A e \in chunk_embeddings : \E c \in document_chunks : c.id = e.chunk_id

HeadingLevels(text) ==
    LET lines == SplitLines(text)
    IN  SelectSeq([i \in 1..Len(lines) |-> HeadingLevel(lines[i])], LAMBDA k : k > 0)

\* The first line of a text that is a heading.
FirstHeading(text) ==
    LET lines == SplitLines(text)
        i     == CHOOSE j \in 1..Len(lines) :
                     HeadingLevel(lines[j]) > 0 /\ \A k \in 1..(j - 1) : HeadingLevel(lines[k]) = 0
    IN  lines[i]

\* C19: a two-level outline (a level-1 heading Ch1, then a level-2 heading
\* 1.1) parses to root -> Ch1 -> 1.1: the root has the one child Ch1, titled
\* by its heading text, Ch1 has the one child 1.1, and Ch1's char_end is
\* 1.1's char_start or, 1.1 being the last child, the parent's char_end.
C19_TwoLevelOutline ==
    (root.done /\ HeadingLevels(content) = <<1, 2>>) =>
        LET nodes == root.items
        IN  /\ Len(nodes) = 3
            /\ nodes[1].children = <<2>>
            /\ nodes[2].children = <<3>>
            /\ nodes[3].children = <<>>
            /\ nodes[2].title = HeadingTitle(FirstHeading(content))
            /\ \/ nodes[2].char_end = nodes[3].char_start
               \/ nodes[2].char_end = nodes[3].char_end
               \/ nodes[2].char_end = nodes[1].char_end

\* C20: a non-blank text without a heading line parses to a single root
\* without children spanning [0, len(text)], and the pageindex strategy
\* emits for it the chunks of flat chunking of the whole text with the
\* shared primitive, at least one.
C20_NoHeadingsIsFlat ==
    (HeadingLevels(content) = <<>> /\ Strip(content) # <<>>) =>
        /\ root.done =>
               /\ Len(root.items) = 1
               /\ root.items[1].children = <<>>
               /\ root.items[1].char_start = 0
               /\ root.items[1].char_end = Len(content)
        /\ committed.done =>
               /\ committed.items # <<>>
               /\ [i \in 1..Len(committed.items) |-> committed.items[i].content]
                      = smart_split(content, DefaultChunkSize, DefaultOverlap)

\* ------------------------------------------------------- parser nesting
\* The node that the latest heading before node n with a smaller depth
\* created, the root (depth 0) when there is no such heading.  Nodes are
\* numbered in the order of their heading lines.
NearestShallower(nodes, n) ==
    CHOOSE p \in 1..(n - 1) :
        /\ nodes[p].level < nodes[n].level
        /\ \A m \in (p + 1)..(n - 1) : nodes[m].level >= nodes[n].level

\* C23: after the parser processes a heading of depth d, the new node's
\* parent is the nearest still-open node of depth strictly less than d: a
\* heading never becomes the child of a node of equal or greater depth, and
\* a heading that skips levels hangs directly under that ancestor.
C23_ParentIsNearestShallower ==
    root.done =>
        \A n \in 2..Len(root.items) :
            /\ root.items[ParentOf(root.items, n)].level < root.items[n].level
            /\ ParentOf(root.items, n) = NearestShallower(root.items, n)

\* The number of heading lines among the first i lines.
RECURSIVE HeadingsUpTo(_, _)
HeadingsUpTo(lines, i) ==
    IF i = 0 THEN 0
    ELSE HeadingsUpTo(lines, i - 1) + (IF HeadingLevel(lines[i]) > 0 THEN 1 ELSE 0)

\* The node that is innermost open when line i is read: the node of the
\* latest heading line before it, the root when there is none.
OpenAt(lines, i) == 1 + HeadingsUpTo(lines, i - 1)

\* The body text of node n holds line i of the text.
BodyHoldsLine(text, nodes, n, i) ==
    LET lines == SplitLines(text)
        from  == CharPos(lines, i)
    IN  /\ nodes[n].char_start <= from
        /\ from + Len(lines[i]) <= nodes[n].char_start + Len(nodes[n].content)
        /\ nodes[n].content =
               Slice(text, nodes[n].char_start, nodes[n].char_start + Len(nodes[n].content))

\* C24: every non-heading line of the input, text before the first heading
\* included, is in the body text of the node that is innermost open when
\* the line is read (the root when no heading is open).
C24_BodyLinesReachOpenNode ==
    root.done =>
        LET lines == SplitLines(content)
        IN  \A i \in 1..Len(lines) :
                (HeadingLevel(lines[i]) = 0 /\ lines[i] # <<>>) =>
                    BodyHoldsLine(content, root.items, OpenAt(lines, i), i)

\* ------------------------------------------------------ chunking units
\* The units _smart_split accumulates: a paragraph that fits chunk_size,
\* the sentences of a paragraph that does not; white space at the ends of
\* a unit is not counted.
RECURSIVE UnitsOf(_, _)
UnitsOf(paragraphs, chunk_size) ==
    IF paragraphs = <<>> THEN <<>>
    ELSE LET para == Strip(Head(paragraphs))
             sentences == SplitSentences(para)
             here == IF para = <<>> THEN <<>>
                     ELSE IF Len(para) > chunk_size
                     THEN [k \in 1..Len(sentences) |-> Strip(sentences[k])]
                     ELSE <<para>>
         IN  here \o UnitsOf(Tail(paragraphs), chunk_size)

Units(text, chunk_size) == UnitsOf(SplitParagraphs(text), chunk_size)

\* u is a contiguous part of s.
Within(u, s) == \E p \in 1..(Len(s) - Len(u) + 1) : SubSeq(s, p, p + Len(u) - 1) = u

\* The chunks that hold unit k whole, and the units that hold its text.
Holding(units, k) == {i \in 1..Len(split.items) : Within(units[k], split.items[i])}
Sources(units, k) == {j \in 1..Len(units) : Within(units[k], units[j])}

C26_NoEmptyChunk ==
    split.done => \A i \in 1..Len(split.items) : Len(split.items[i]) > 0

\* ------------------------------------------------------ node references
\* C27: after a document has been indexed with the pageindex strategy, the
\* node_id of every persisted chunk is the id under which a node of that
\* document's tree was persisted (the ids the routing lookup is keyed by).
C27_ChunkNodeIdIsPersistedNode ==
    run.pc = "done" =>
        \A c \in ChunksOf(run.document_id) :
            \E n \in NodesOf(run.document_id) : n.id = c.node_id

\* C28: saving a tree the parser produced never violates the uniqueness
\* constraint of the node table: no node about to be saved has the
\* (node_level, node_index) pair of a node already saved for the same tree,
\* children at the same level under different parents included.
C28_SavedNodesKeepUniquePairs ==
    run.pc = "save_nodes" =>
        ~\E r \in doc_nodes :
            /\ r.tree_id = run.tree_id
            /\ r.node_level = Head(run.todo).level
            /\ r.node_index = Head(run.todo).index

\* ---------------------------------------------------- streaming client
\* The events of the response that arrive whole, with their empty line.
Complete(s) ==
    IF s.whole \/ s.events = <<>> THEN s.events
    ELSE SubSeq(s.events, 1, Len(s.events) - 1)

\* The handler calls the events ask for: onChunk for every chunk event up
\* to the first done or error event, onDone for a done event that comes
\* before any error event.
RECURSIVE ExpectedCalls(_)
ExpectedCalls(evs) ==
    IF evs = <<>> THEN <<>>
    ELSE IF Head(evs) = "done" THEN <<[handler |-> "onDone", text |-> <<>>]>>
    ELSE IF Head(evs) = "error" THEN <<>>
    ELSE IF Head(evs) = "chunk"
    THEN <<[handler |-> "onChunk", text |-> <<Wide>>]>> \o ExpectedCalls(Tail(evs))
    ELSE ExpectedCalls(Tail(evs))

\* The first done or error event, "none" when there is neither.
RECURSIVE FirstFinal(_)
FirstFinal(evs) ==
    IF evs = <<>> THEN "none"
    ELSE IF Head(evs) \in {"done", "error"} THEN Head(evs)
    ELSE FirstFinal(Tail(evs))

IsPrefix(a, b) == Len(a) <= Len(b) /\ a = SubSeq(b, 1, Len(a))

\* The promise is settled after the response was read from.
SettledByStream ==
    sse.outcome \in {"resolved", "rejected"} /\ sse.rest # sse.stream

\* C21: postSseJson handles the events chunk/done/error in arrival order:
\* onChunk once per chunk event, onDone at most once and only for a done
\* event, no handler call after a done or an error event; the promise
\* resolves only if a done event was received, and an error event or a
\* stream that ends without a done event makes it reject.
C21_HandlersFollowEvents ==
    LET expected == ExpectedCalls(Complete(sse))
    IN  /\ IsPrefix(sse.calls, expected)
        /\ \A i \in 1..Len(sse.calls) :
               sse.calls[i].handler = "onDone" =>
                   i = Len(sse.calls) /\ sse.outcome = "resolved"
        /\ sse.outcome = "resolved" => FirstFinal(Complete(sse)) = "done"
        /\ SettledByStream =>
               /\ sse.calls = expected
               /\ sse.outcome = "resolved" <=> FirstFinal(Complete(sse)) = "done"
        /\ (sse.outcome = "reading" /\ sse.rest = <<>>) =>
               /\ sse.calls = expected
               /\ FirstFinal(Complete(sse)) = "none"

\* A chunk event and a done event were handled, the promise is resolved
\* and the chunk event that followed the done event in the same read was
\* not handled.
C21_Witness ==
    /\ sse.outcome = "resolved"
    /\ sse.events = <<"chunk", "done", "chunk">>
    /\ sse.rest = <<>>
    /\ Len(sse.calls) = 2

\* What postSseJson does when the whole stream arrives in one read.
OneRead(stream) ==
    LET d  == Decode(<<>>, stream)
        st == Drain([buffer |-> d.text, calls |-> <<>>, outcome |-> "reading"])
    IN  [calls |-> st.calls,
         outcome |-> IF st.outcome = "reading" THEN "rejected" ELSE st.outcome]

\* C30: for a fixed byte stream the onChunk/onDone calls and the outcome of
\* postSseJson are the same for every way the stream is split into reads:
\* a block split across reads is delivered exactly once.
C30_SplitIndependent ==
    LET one == OneRead(sse.stream)
    IN  /\ IsPrefix(sse.calls, one.calls)
        /\ SettledByStream =>
               /\ sse.calls = one.calls
               /\ sse.outcome = one.outcome

\* The promise resolved after a read had ended inside an event block, and
\* a chunk with a two-byte character was delivered.
C30_Witness ==
    /\ sse.outcome = "resolved"
    /\ sse.torn
    /\ \E i \in 1..Len(sse.calls) :
           sse.calls[i] = [handler |-> "onChunk", text |-> <<Wide>>]

\* ------------------------------------------------------------ chat page
\* C22: every ask-stream request of the chat page has useRag = true exactly
\* when at least one document is selected at send time and carries
\* documentIds only then (the selected ones); with no document selected it
\* asks for no retrieval, and references are attached to the assistant turn
\* only for a useRag request.
C22_RagOnlyWithSelectedDocuments ==
    \A i \in 1..Len(chat.requests) :
        LET r == chat.requests[i]
        IN  /\ r.payload.useRag <=> r.selected # {}
            /\ "documentIds" \in DOMAIN r.payload <=> r.payload.useRag
            /\ r.payload.useRag => r.payload.documentIds = r.selected
            /\ chat.chatTurns[i].references # {} => r.payload.useRag

\* A plain request was answered with references that were not attached,
\* after a request with a selection whose references were.
C22_Witness ==
    /\ Len(chat.requests) = 2
    /\ chat.requests[1].payload.useRag
    /\ chat.chatTurns[1].references # {}
    /\ ~chat.requests[2].payload.useRag
    /\ chat.requests[2].returned # {}
    /\ chat.chatTurns[2].references = {}

\* -------------------------------------------------------- split preview
\* C29: when several split-preview requests are in flight at once, then
\* under every order of arrival the chunk list shown once all have arrived
\* is the result of the most recently issued request: a late response to
\* an older request never overwrites the result of a newer one.
C29_LatestPreviewWins ==
    LET n == Len(pv.requests)
    IN  (/\ n > 0
         /\ \A i \in 1..n : pv.requests[i].state = "shown")
            => pv.chunks = pv.requests[n].content

====
